---------------------------- MODULE Spec2Model ----------------------------
(***************************************************************************)
(* A model of the session lifecycle of party-manager-bot: the persisted    *)
(* session status and roster, the in-memory timer registry of              *)
(* SessionScheduler, the timer callbacks, the manual cancel/end/modify     *)
(* operations, role selection, session creation/continuation and the       *)
(* startup reconciliation.                                                 *)
(*                                                                         *)
(* Every asynchronous function is a process: one step per awaited store    *)
(* or collaborator call, the synchronous code that follows the await being *)
(* part of the same step (JavaScript runs it without interruption).        *)
(* Time is counted in minutes.                                             *)
(***************************************************************************)
EXTENDS Integers, FiniteSets, Sequences, TLC

(***************************************************************************)
(* Program constants.                                                      *)
(***************************************************************************)
ReminderHours == 1

CancelMinutes == 5

CompletionHours == 5

PartyCapacity == 6

(***************************************************************************)
(* Bounds of the model.                                                    *)
(***************************************************************************)
MaxSessions == 2

MaxUsers == 8

MaxDates == 2

MaxManualOps == 1

MaxRestarts == 1

MaxRequests == 2

MaxCreates == 1

MaxOps == 3

MaxFaults == 1

Sessions == 1..MaxSessions

Users == 1..MaxUsers

\* The start instants a session may be given, in minutes from instant 0.
Dates == {k * 70 : k \in 1..MaxDates}

Roles == {"GAME_MASTER", "TANK", "SUPPORT"}

OrdinaryRoles == Roles \ {"GAME_MASTER"}

Statuses == {"SCHEDULED", "FULL", "ACTIVE", "COMPLETED", "CANCELED"}

\* session.status of a session id that has no row yet
NoSession == "NONE"

CallbackProcs == {"reminder", "fill", "completion"}

SelProcs == {"sel1", "sel2"}

Procs == CallbackProcs \cup SelProcs \cup {"cancel", "end", "modify", "init", "create"}

VARIABLES
    now,             \* the wall clock
    status,          \* store: session id -> status (NoSession before creation)
    date,            \* store: session id -> start instant
    party,           \* store: session id -> set of party_member rows
    eventId,         \* store: session id -> whether an external event is attached
    scheduledTasks,  \* SessionScheduler.scheduledTasks: Map<sessionId, ScheduledTask>
    liveJobs,        \* the CronJobs that are running (started, not stopped, not fired)
    message,         \* the session message last rendered, per session
    pc,              \* process -> position
    loc,             \* process -> local variables
    used             \* how many manual operations, restarts, requests, creations ran

vars == <<now, status, date, party, eventId, scheduledTasks, liveJobs, message,
          pc, loc, used>>

store == <<status, date, party, eventId>>

(***************************************************************************)
(* Date utilities (shared/datetime/dateUtils).                             *)
(***************************************************************************)
getHoursBefore(d, h) == d - h * 60

getMinutesBefore(d, m) == d - m

getHoursAfter(d, h) == d + h * 60

isFutureDate(d, t) == d > t

\* The instants at which some comparison with the clock can change.
Instants ==
    {0} \cup Dates
        \cup {getHoursBefore(d, ReminderHours) : d \in Dates}
        \cup {getMinutesBefore(d, CancelMinutes) : d \in Dates}
        \cup {getHoursAfter(d, CompletionHours) : d \in Dates}

(***************************************************************************)
(* The timer registry.  A job is identified by its session, slot and       *)
(* target instant; registry operations are functions of the pair           *)
(* [tasks, jobs].                                                          *)
(***************************************************************************)
NoJob == [sid |-> 0, slot |-> "none", at |-> 0]

Job(s, slot, at) == [sid |-> s, slot |-> slot, at |-> at]

JobsOf(task) == {task.reminderJob, task.cancellationJob, task.completionJob} \ {NoJob}

Sched == [tasks |-> scheduledTasks, jobs |-> liveJobs]

SetSched(r) == scheduledTasks' = r.tasks /\ liveJobs' = r.jobs

MapDelete(f, k) == [x \in (DOMAIN f) \ {k} |-> f[x]]

MapSet(f, k, v) == [x \in (DOMAIN f) \cup {k} |-> IF x = k THEN v ELSE f[x]]

cancelSessionTasks(r, s) ==
    IF s \in DOMAIN r.tasks
    THEN [tasks |-> MapDelete(r.tasks, s), jobs |-> r.jobs \ JobsOf(r.tasks[s])]
    ELSE r

\* A task built without looking at the clock: every job is created.
NewTaskUnchecked(s, d, t) ==
    [reminderJob |-> Job(s, "reminder", getHoursBefore(d, ReminderHours)),
     cancellationJob |-> Job(s, "fill", getMinutesBefore(d, CancelMinutes)),
     completionJob |-> Job(s, "completion", getHoursAfter(d, CompletionHours))]

NewTask(s, d, t) ==
    [reminderJob |->
        IF isFutureDate(getHoursBefore(d, ReminderHours), t)
        THEN Job(s, "reminder", getHoursBefore(d, ReminderHours)) ELSE NoJob,
     cancellationJob |->
        IF isFutureDate(getMinutesBefore(d, CancelMinutes), t)
        THEN Job(s, "fill", getMinutesBefore(d, CancelMinutes)) ELSE NoJob,
     completionJob |->
        IF isFutureDate(getHoursAfter(d, CompletionHours), t)
        THEN Job(s, "completion", getHoursAfter(d, CompletionHours)) ELSE NoJob]

RegisterTask(r, s, task) ==
    IF JobsOf(task) # {}
    THEN [tasks |-> MapSet(r.tasks, s, task), jobs |-> r.jobs \cup JobsOf(task)]
    ELSE r

\* Scheduling that adds the new set without stopping the old one.
scheduleWithoutCancel(r, s, d, t) == RegisterTask(r, s, NewTask(s, d, t))

scheduleSessionTasks(r, s, d, t) ==
    RegisterTask(cancelSessionTasks(r, s), s, NewTask(s, d, t))

\* A clearing of the reminder that stops and removes the whole entry.
clearEveryTask(r, s) == cancelSessionTasks(r, s)

clearReminderTask(r, s) ==
    IF s \notin DOMAIN r.tasks \/ r.tasks[s].reminderJob = NoJob
    THEN r
    ELSE LET task == [r.tasks[s] EXCEPT !.reminderJob = NoJob]
             jobs == r.jobs \ {r.tasks[s].reminderJob}
         IN IF task.cancellationJob = NoJob /\ task.completionJob = NoJob
            THEN [tasks |-> MapDelete(r.tasks, s), jobs |-> jobs]
            ELSE [tasks |-> MapSet(r.tasks, s, task), jobs |-> jobs]

(***************************************************************************)
(* Store reads and values.                                                 *)
(***************************************************************************)
Member(u, role) == [userId |-> u, role |-> role]

partySize(s) == Cardinality(party[s])

NoReason == [text |-> "", size |-> 0, of |-> 0]

\* A reason that counts the missing players instead of the present ones.
MissingPlayers(n) ==
    [text |-> "Insufficient players", size |-> PartyCapacity - n, of |-> PartyCapacity]

InsufficientPlayers(n) == [text |-> "Insufficient players", size |-> n, of |-> PartyCapacity]

ManualReason == [text |-> "manual", size |-> 0, of |-> 0]

Idle == [sid |-> 0]

Goto(p, l) == pc' = [pc EXCEPT ![p] = l]

GotoWith(p, l, locals) == pc' = [pc EXCEPT ![p] = l] /\ loc' = [loc EXCEPT ![p] = locals]

Done(p) == GotoWith(p, "idle", Idle)


Render(s, description) == [status |-> status[s], description |-> description]

RecoveredReason ==
    [text |-> "Session was not filled before start time (recovered after bot restart)",
     size |-> 0, of |-> 0]

ActiveStatuses == {"SCHEDULED", "ACTIVE", "FULL"}

(***************************************************************************)
(* Startup reconciliation: the synchronous part of the loop of             *)
(* handleMissedSessions from session i on, up to its next await, and the   *)
(* scheduling of the still-future sessions once the loop has ended.        *)
(***************************************************************************)
RECURSIVE ScheduleFuture(_, _, _, _)
ScheduleFuture(r, pending, i, t) ==
    IF i > Len(pending) THEN r
    ELSE IF isFutureDate(pending[i].date, t)
         THEN ScheduleFuture(scheduleSessionTasks(r, pending[i].id, pending[i].date, t),
                             pending, i + 1, t)
         ELSE ScheduleFuture(r, pending, i + 1, t)

RECURSIVE handleMissedSessions(_, _, _, _)
\* A reconciliation that schedules every past ACTIVE session, overdue or not.
handleMissedWithoutAutoComplete(r, pending, i, t) ==
    IF i > Len(pending)
    THEN [reg |-> ScheduleFuture(r, pending, 1, t), pc |-> "idle", idx |-> i]
    ELSE LET s == pending[i]
         IN IF isFutureDate(s.date, t)
            THEN handleMissedSessions(r, pending, i + 1, t)
            ELSE IF s.status = "ACTIVE"
            THEN handleMissedSessions(scheduleSessionTasks(r, s.id, s.date, t),
                                      pending, i + 1, t)
            ELSE IF s.status \in {"SCHEDULED", "FULL"}
            THEN [reg |-> r, pc |-> "i_get", idx |-> i]
            ELSE handleMissedSessions(r, pending, i + 1, t)

handleMissedSessions(r, pending, i, t) ==
    IF i > Len(pending)
    THEN [reg |-> ScheduleFuture(r, pending, 1, t), pc |-> "idle", idx |-> i]
    ELSE LET s == pending[i]
             completionTime == getHoursAfter(s.date, CompletionHours)
         IN IF isFutureDate(s.date, t)
            THEN handleMissedSessions(r, pending, i + 1, t)
            ELSE IF s.status = "ACTIVE" /\ ~isFutureDate(completionTime, t)
            THEN [reg |-> r, pc |-> "es_get", idx |-> i]
            ELSE IF s.status = "ACTIVE" /\ isFutureDate(completionTime, t)
            THEN handleMissedSessions(scheduleSessionTasks(r, s.id, s.date, t),
                                      pending, i + 1, t)
            ELSE IF s.status \in {"SCHEDULED", "FULL"}
            THEN [reg |-> r, pc |-> "i_get", idx |-> i]
            ELSE handleMissedSessions(r, pending, i + 1, t)

\* The reconciliation process moves on as handleMissedSessions says.
InitResume(res, pending) ==
    /\ SetSched(res.reg)
    /\ IF res.pc = "idle"
       THEN Done("init")
       ELSE GotoWith("init", res.pc,
                     [sid |-> pending[res.idx].id, pending |-> pending,
                      idx |-> res.idx, reason |-> RecoveredReason])

\* The sessions getSessions returns, in id order, as the records the loop reads.
RECURSIVE SessionList(_)
SessionList(n) ==
    IF n = 0 THEN <<>>
    ELSE IF status[n] = NoSession THEN SessionList(n - 1)
         ELSE Append(SessionList(n - 1), [id |-> n, date |-> date[n], status |-> status[n]])

PendingSessions == SelectSeq(SessionList(MaxSessions), LAMBDA x : x.status \in ActiveStatuses)

(***************************************************************************)
(* What the caller of cancelSession / endSession does once the call has    *)
(* returned.                                                               *)
(***************************************************************************)
Finish(p) ==
    CASE p \in {"fill", "completion"} ->
            /\ SetSched(cancelSessionTasks(Sched, loc[p].sid))
            /\ Done(p)
      [] p = "init" ->
            InitResume(handleMissedSessions(Sched, loc[p].pending, loc[p].idx + 1, now),
                       loc[p].pending)
      [] OTHER ->
            /\ Done(p)
            /\ UNCHANGED <<scheduledTasks, liveJobs>>

(***************************************************************************)
(* cancelSession(sessionId, reason), run by process p.                     *)
(***************************************************************************)
CancelCallers == {"cancel", "fill", "init"}

CancelGet(p) ==
    /\ pc[p] = "cs_get"
    /\ SetSched(cancelSessionTasks(Sched, loc[p].sid))
    /\ Goto(p, IF eventId[loc[p].sid] THEN "cs_event" ELSE "cs_update")
    /\ UNCHANGED <<now, store, message, loc, used>>

CancelEvent(p) ==
    /\ pc[p] = "cs_event"
    /\ Goto(p, "cs_update")
    /\ UNCHANGED <<now, store, scheduledTasks, liveJobs, message, loc, used>>

CancelUpdate(p) ==
    /\ pc[p] = "cs_update"
    /\ status' = [status EXCEPT ![loc[p].sid] = "CANCELED"]
    /\ Goto(p, "cs_regen")
    /\ UNCHANGED <<now, date, party, eventId, scheduledTasks, liveJobs, message, loc, used>>

CancelRegen(p) ==
    /\ pc[p] = "cs_regen"
    /\ message' = [message EXCEPT ![loc[p].sid] = Render(loc[p].sid, loc[p].reason)]
    /\ Goto(p, "cs_notify")
    /\ UNCHANGED <<now, store, scheduledTasks, liveJobs, loc, used>>

CancelNotify(p) ==
    /\ pc[p] = "cs_notify"
    /\ Finish(p)
    /\ UNCHANGED <<now, store, message, used>>

cancelSession(p) ==
    \/ CancelGet(p)
    \/ CancelEvent(p)
    \/ CancelUpdate(p)
    \/ CancelRegen(p)
    \/ CancelNotify(p)

(***************************************************************************)
(* endSession(sessionId), run by process p.                                *)
(***************************************************************************)
EndCallers == {"end", "completion", "init"}

EndGet(p) ==
    /\ pc[p] = "es_get"
    /\ SetSched(cancelSessionTasks(Sched, loc[p].sid))
    /\ Goto(p, IF eventId[loc[p].sid] THEN "es_event" ELSE "es_update")
    /\ UNCHANGED <<now, store, message, loc, used>>

EndEvent(p) ==
    /\ pc[p] = "es_event"
    /\ Goto(p, "es_update")
    /\ UNCHANGED <<now, store, scheduledTasks, liveJobs, message, loc, used>>

EndUpdate(p) ==
    /\ pc[p] = "es_update"
    /\ status' = [status EXCEPT ![loc[p].sid] = "COMPLETED"]
    /\ Goto(p, "es_regen")
    /\ UNCHANGED <<now, date, party, eventId, scheduledTasks, liveJobs, message, loc, used>>

EndRegen(p) ==
    /\ pc[p] = "es_regen"
    /\ message' = [message EXCEPT ![loc[p].sid] = Render(loc[p].sid, NoReason)]
    /\ Finish(p)
    /\ UNCHANGED <<now, store, used>>

endSession(p) ==
    \/ EndGet(p)
    \/ EndEvent(p)
    \/ EndUpdate(p)
    \/ EndRegen(p)

(***************************************************************************)
(* The timers and their callbacks.                                         *)
(***************************************************************************)
FirstStep(slot) ==
    CASE slot = "reminder" -> "r_get"
      [] slot = "fill" -> "f_get"
      [] slot = "completion" -> "c_get"

\* A running one-shot job reaches its instant and starts its callback.
FireJob(j) ==
    /\ j \in liveJobs
    /\ j.at <= now
    /\ pc[j.slot] = "idle"
    /\ liveJobs' = liveJobs \ {j}
    /\ GotoWith(j.slot, FirstStep(j.slot), [sid |-> j.sid])
    /\ UNCHANGED <<now, store, scheduledTasks, message, used>>

ReminderGet ==
    /\ pc["reminder"] = "r_get"
    /\ Goto("reminder", "r_notify")
    /\ UNCHANGED <<now, store, scheduledTasks, liveJobs, message, loc, used>>

ReminderNotify ==
    /\ pc["reminder"] = "r_notify"
    /\ SetSched(clearReminderTask(Sched, loc["reminder"].sid))
    /\ Done("reminder")
    /\ UNCHANGED <<now, store, message, used>>

handleReminder == ReminderGet \/ ReminderNotify

FillGet ==
    /\ pc["fill"] = "f_get"
    /\ LET s == loc["fill"].sid
           n == partySize(s)
       IN IF ~(n >= PartyCapacity)
          THEN GotoWith("fill", "cs_get",
                        [sid |-> s, size |-> n, reason |-> InsufficientPlayers(n)])
          ELSE GotoWith("fill", "f_active", [sid |-> s, size |-> n])
    /\ UNCHANGED <<now, store, scheduledTasks, liveJobs, message, used>>

FillActive ==
    /\ pc["fill"] = "f_active"
    /\ status' = [status EXCEPT ![loc["fill"].sid] = "ACTIVE"]
    /\ Goto("fill", "f_regen")
    /\ UNCHANGED <<now, date, party, eventId, scheduledTasks, liveJobs, message, loc, used>>

FillRegen ==
    /\ pc["fill"] = "f_regen"
    /\ message' = [message EXCEPT ![loc["fill"].sid] = Render(loc["fill"].sid, NoReason)]
    /\ Finish("fill")
    /\ UNCHANGED <<now, store, used>>

handleCancellation == FillGet \/ FillActive \/ FillRegen \/ cancelSession("fill")

\* A completion callback that ends the session whatever its status.
CompletionGetUnguarded ==
    /\ pc["completion"] = "c_get"
    /\ Goto("completion", "es_get")
    /\ UNCHANGED <<now, store, scheduledTasks, liveJobs, message, loc, used>>

CompletionGet ==
    /\ pc["completion"] = "c_get"
    /\ IF status[loc["completion"].sid] # "ACTIVE"
       THEN Finish("completion")
       ELSE /\ Goto("completion", "es_get")
            /\ UNCHANGED <<scheduledTasks, liveJobs, loc>>
    /\ UNCHANGED <<now, store, message, used>>

handleCompletion == CompletionGet \/ endSession("completion")

\* Time passes to a later instant.  A running job does not miss its instant,
\* and an operation under way ends within the instant it started in.
Tick ==
    /\ \A p \in Procs : pc[p] = "idle"
    /\ \A j \in liveJobs : j.at > now
    /\ \E t \in Instants :
          /\ t > now
          /\ \A j \in liveJobs : j.at >= t
          /\ now' = t
    /\ UNCHANGED <<store, scheduledTasks, liveJobs, message, pc, loc, used>>

(***************************************************************************)
(* Manual operations: the cancel and end commands, and modifySession.      *)
(***************************************************************************)
Bump(field) == used' = [used EXCEPT ![field] = @ + 1]

\* History kept with a manual cancel or end, never read by the operation: the
\* registry entry and the pending timers of the session when it was called.
EntryOf(s) ==
    [task |-> IF s \in DOMAIN scheduledTasks THEN {scheduledTasks[s]} ELSE {},
     jobs |-> {j \in liveJobs : j.sid = s}]

StartCancel(s) ==
    /\ pc["cancel"] = "idle"
    /\ used.manual < MaxManualOps
    /\ status[s] # NoSession
    /\ GotoWith("cancel", "cs_get",
                [sid |-> s, reason |-> ManualReason, entry |-> EntryOf(s)])
    /\ Bump("manual")
    /\ UNCHANGED <<now, store, scheduledTasks, liveJobs, message>>

StartEnd(s) ==
    /\ pc["end"] = "idle"
    /\ used.manual < MaxManualOps
    /\ status[s] # NoSession
    /\ GotoWith("end", "es_get", [sid |-> s, entry |-> EntryOf(s)])
    /\ Bump("manual")
    /\ UNCHANGED <<now, store, scheduledTasks, liveJobs, message>>

StartModify(s) ==
    /\ pc["modify"] = "idle"
    /\ used.manual < MaxManualOps
    /\ status[s] # NoSession
    /\ GotoWith("modify", "m_get", [sid |-> s])
    /\ Bump("manual")
    /\ UNCHANGED <<now, store, scheduledTasks, liveJobs, message>>

\* const session = await getSessionById(sessionId)
ModifyGet ==
    /\ pc["modify"] = "m_get"
    /\ LET s == loc["modify"].sid
       IN GotoWith("modify", "m_update",
                   [sid |-> s, status |-> status[s], date |-> date[s],
                    eventId |-> eventId[s]])
    /\ UNCHANGED <<now, store, scheduledTasks, liveJobs, message, used>>

\* updateSession(sessionId, data): the fields of data that are set are written.
updateSession(s, data) ==
    /\ date' = [date EXCEPT ![s] = data.date]
    /\ eventId' = [eventId EXCEPT ![s] = IF data.eventId THEN TRUE ELSE @]
    /\ status' = [status EXCEPT ![s] = data.status]

\* DateChecker yields a new date, or none (0); the snapshot read earlier is
\* written back whole, and the tasks are rescheduled when the date changed.
ModifyUpdate ==
    /\ pc["modify"] = "m_update"
    /\ \E newProposedDate \in {d \in Dates : isFutureDate(d, now)} \cup {0} :
          LET s == loc["modify"].sid
              session == loc["modify"]
              dateChanged == newProposedDate # 0 /\ newProposedDate # session.date
              newDate == IF dateChanged THEN newProposedDate ELSE session.date
          IN /\ updateSession(s, [session EXCEPT !.date = newDate])
             /\ IF dateChanged
                THEN /\ SetSched(scheduleSessionTasks(Sched, s, newDate, now))
                     /\ GotoWith("modify", "m_regen", [sid |-> s])
                ELSE /\ UNCHANGED <<scheduledTasks, liveJobs>>
                     /\ Done("modify")
    /\ UNCHANGED <<now, party, message, used>>

ModifyRegen ==
    /\ pc["modify"] = "m_regen"
    /\ message' = [message EXCEPT ![loc["modify"].sid] = Render(loc["modify"].sid, NoReason)]
    /\ Done("modify")
    /\ UNCHANGED <<now, store, scheduledTasks, liveJobs, used>>

modifySession == ModifyGet \/ ModifyUpdate \/ ModifyRegen

(***************************************************************************)
(* processRoleSelection(newPartyMember, sessionId), run by process p.      *)
(***************************************************************************)
SameDay(d1, d2) == d1 \div 1440 = d2 \div 1440

\* The membership query with a status filter that only keeps SCHEDULED.
isUserInScheduledSession(u, excludeSessionId) ==
    \E s \in Sessions \ {excludeSessionId} :
        /\ status[s] = "SCHEDULED"
        /\ \E m \in party[s] : m.userId = u

isUserInActiveSession(u, excludeSessionId) ==
    \E s \in Sessions \ {excludeSessionId} :
        /\ status[s] \in ActiveStatuses
        /\ \E m \in party[s] : m.userId = u

isUserHostingOnDate(u, d) ==
    \E s \in Sessions :
        /\ status[s] \in ActiveStatuses
        /\ Member(u, "GAME_MASTER") \in party[s]
        /\ SameDay(date[s], d)

isUserMemberOnDate(u, d) ==
    \E s \in Sessions :
        /\ status[s] \in ActiveStatuses
        /\ \E m \in party[s] : m.userId = u /\ m.role # "GAME_MASTER"
        /\ SameDay(date[s], d)

\* The atomic conditional insert: the rows after it, and whether it inserted.
addUserToPartyIfNotFull(rows, u, role) ==
    IF Cardinality(rows) < PartyCapacity
    THEN [rows |-> rows \cup {Member(u, role)}, wasAdded |-> TRUE]
    ELSE [rows |-> rows, wasAdded |-> FALSE]

deletePartyMember(rows, u) == {m \in rows : m.userId # u}

updatePartyMemberRole(rows, u, role) ==
    {IF m.userId = u THEN Member(u, role) ELSE m : m \in rows}

Return(p, outcome) == GotoWith(p, "idle", [loc[p] EXCEPT !.outcome = outcome])

\* History kept with a request, never read by the handler: the roster of the
\* session when the request was sent and, when the request before it was the
\* same one (same session, user and role), how that one ended and the roster
\* it was sent on.
NoPrevious == [outcome |-> "NONE", before |-> {}]

Previous(p, s, u, role) ==
    IF loc[p] # Idle /\ loc[p].sid = s /\ loc[p].user = u /\ loc[p].role = role
    THEN [outcome |-> loc[p].outcome, before |-> loc[p].before]
    ELSE NoPrevious

StartSelect(p, s, u, role) ==
    /\ pc[p] = "idle"
    /\ used.requests < MaxRequests
    /\ status[s] # NoSession
    /\ GotoWith(p, "s_get", [sid |-> s, user |-> u, role |-> role, outcome |-> "PENDING",
                             date |-> 0, size |-> 0,
                             before |-> party[s], prev |-> Previous(p, s, u, role)])
    /\ Bump("requests")
    /\ UNCHANGED <<now, store, scheduledTasks, liveJobs, message>>

\* The checks with a member branch that never removes: a member who selects
\* the role they hold is sent to the update as well.
SelGetNeverRemoves(p) ==
    /\ pc[p] = "s_get"
    /\ LET s == loc[p].sid
           u == loc[p].user
           existing == {m \in party[s] : m.userId = u}
       IN IF status[s] # "SCHEDULED" THEN Return(p, "LOCKED")
          ELSE IF ~isFutureDate(date[s], now) THEN Return(p, "EXPIRED")
          ELSE IF loc[p].role = "GAME_MASTER" THEN Return(p, "INVALID")
          ELSE IF existing # {}
          THEN Goto(p, "s_update") /\ UNCHANGED loc
          ELSE GotoWith(p, "s_active",
                        [loc[p] EXCEPT !.date = date[s], !.size = partySize(s)])
    /\ UNCHANGED <<now, store, scheduledTasks, liveJobs, message, used>>

\* The checks without the rejection of the GAME_MASTER role.
SelGetAcceptsGameMaster(p) ==
    /\ pc[p] = "s_get"
    /\ LET s == loc[p].sid
           u == loc[p].user
           existing == {m \in party[s] : m.userId = u}
       IN IF status[s] # "SCHEDULED" THEN Return(p, "LOCKED")
          ELSE IF ~isFutureDate(date[s], now) THEN Return(p, "EXPIRED")
          ELSE IF FALSE THEN Return(p, "INVALID")
          ELSE IF existing # {}
          THEN \E existingMember \in existing :
                  Goto(p, IF existingMember.role = loc[p].role THEN "s_delete" ELSE "s_update")
                  /\ UNCHANGED loc
          ELSE GotoWith(p, "s_active",
                        [loc[p] EXCEPT !.date = date[s], !.size = partySize(s)])
    /\ UNCHANGED <<now, store, scheduledTasks, liveJobs, message, used>>

\* The checks with a lock that only covers the sessions that are over.
SelGetLocksTerminalOnly(p) ==
    /\ pc[p] = "s_get"
    /\ LET s == loc[p].sid
           u == loc[p].user
           existing == {m \in party[s] : m.userId = u}
       IN IF status[s] \in {"COMPLETED", "CANCELED"} THEN Return(p, "LOCKED")
          ELSE IF ~isFutureDate(date[s], now) THEN Return(p, "EXPIRED")
          ELSE IF loc[p].role = "GAME_MASTER" THEN Return(p, "INVALID")
          ELSE IF existing # {}
          THEN \E existingMember \in existing :
                  Goto(p, IF existingMember.role = loc[p].role THEN "s_delete" ELSE "s_update")
                  /\ UNCHANGED loc
          ELSE GotoWith(p, "s_active",
                        [loc[p] EXCEPT !.date = date[s], !.size = partySize(s)])
    /\ UNCHANGED <<now, store, scheduledTasks, liveJobs, message, used>>

\* The checks without the test of the start instant.
SelGetNoExpiry(p) ==
    /\ pc[p] = "s_get"
    /\ LET s == loc[p].sid
           u == loc[p].user
           existing == {m \in party[s] : m.userId = u}
       IN IF status[s] # "SCHEDULED" THEN Return(p, "LOCKED")
          ELSE IF FALSE THEN Return(p, "EXPIRED")
          ELSE IF loc[p].role = "GAME_MASTER" THEN Return(p, "INVALID")
          ELSE IF existing # {}
          THEN \E existingMember \in existing :
                  Goto(p, IF existingMember.role = loc[p].role THEN "s_delete" ELSE "s_update")
                  /\ UNCHANGED loc
          ELSE GotoWith(p, "s_active",
                        [loc[p] EXCEPT !.date = date[s], !.size = partySize(s)])
    /\ UNCHANGED <<now, store, scheduledTasks, liveJobs, message, used>>

SelGet(p) ==
    /\ pc[p] = "s_get"
    /\ LET s == loc[p].sid
           u == loc[p].user
           existing == {m \in party[s] : m.userId = u}
       IN IF status[s] # "SCHEDULED" THEN Return(p, "LOCKED")
          ELSE IF ~isFutureDate(date[s], now) THEN Return(p, "EXPIRED")
          ELSE IF loc[p].role = "GAME_MASTER" THEN Return(p, "INVALID")
          ELSE IF existing # {}
          THEN \E existingMember \in existing :
                  Goto(p, IF existingMember.role = loc[p].role THEN "s_delete" ELSE "s_update")
                  /\ UNCHANGED loc
          ELSE GotoWith(p, "s_active",
                        [loc[p] EXCEPT !.date = date[s], !.size = partySize(s)])
    /\ UNCHANGED <<now, store, scheduledTasks, liveJobs, message, used>>

\* The removal keyed by the user alone: the rows of every session go.
SelDeleteByUserOnly(p) ==
    /\ pc[p] = "s_delete"
    /\ party' = [s \in Sessions |-> deletePartyMember(party[s], loc[p].user)]
    /\ Return(p, "REMOVED_FROM_PARTY")
    /\ UNCHANGED <<now, status, date, eventId, scheduledTasks, liveJobs, message, used>>

\* The update that is not keyed by the user: every ordinary member of the
\* session gets the role.
SelUpdateEveryMember(p) ==
    /\ pc[p] = "s_update"
    /\ party' = [party EXCEPT ![loc[p].sid] =
                    {IF m.role = "GAME_MASTER" /\ m.userId # loc[p].user
                     THEN m ELSE Member(m.userId, loc[p].role) : m \in @}]
    /\ Return(p, "ROLE_CHANGED")
    /\ UNCHANGED <<now, status, date, eventId, scheduledTasks, liveJobs, message, used>>

SelDelete(p) ==
    /\ pc[p] = "s_delete"
    /\ party' = [party EXCEPT ![loc[p].sid] = deletePartyMember(@, loc[p].user)]
    /\ Return(p, "REMOVED_FROM_PARTY")
    /\ UNCHANGED <<now, status, date, eventId, scheduledTasks, liveJobs, message, used>>

SelUpdate(p) ==
    /\ pc[p] = "s_update"
    /\ party' = [party EXCEPT ![loc[p].sid] = updatePartyMemberRole(@, loc[p].user, loc[p].role)]
    /\ Return(p, "ROLE_CHANGED")
    /\ UNCHANGED <<now, status, date, eventId, scheduledTasks, liveJobs, message, used>>

SelActive(p) ==
    /\ pc[p] = "s_active"
    /\ IF isUserInActiveSession(loc[p].user, loc[p].sid)
       THEN Return(p, "ALREADY_IN_SESSION")
       ELSE Goto(p, "s_hosting") /\ UNCHANGED loc
    /\ UNCHANGED <<now, store, scheduledTasks, liveJobs, message, used>>

SelHosting(p) ==
    /\ pc[p] = "s_hosting"
    /\ IF isUserHostingOnDate(loc[p].user, loc[p].date)
       THEN Return(p, "HOSTING_SAME_DAY")
       ELSE Goto(p, "s_add") /\ UNCHANGED loc
    /\ UNCHANGED <<now, store, scheduledTasks, liveJobs, message, used>>

\* The insert whose answer is not looked at.
SelAddIgnoresAnswer(p) ==
    /\ pc[p] = "s_add"
    /\ LET res == addUserToPartyIfNotFull(party[loc[p].sid], loc[p].user, loc[p].role)
       IN /\ party' = [party EXCEPT ![loc[p].sid] = res.rows]
          /\ Return(p, "ADDED_TO_PARTY")
    /\ UNCHANGED <<now, status, date, eventId, scheduledTasks, liveJobs, message, used>>

SelAdd(p) ==
    /\ pc[p] = "s_add"
    /\ LET res == addUserToPartyIfNotFull(party[loc[p].sid], loc[p].user, loc[p].role)
       IN /\ party' = [party EXCEPT ![loc[p].sid] = res.rows]
          /\ Return(p, IF res.wasAdded THEN "ADDED_TO_PARTY" ELSE "PARTY_FULL")
    /\ UNCHANGED <<now, status, date, eventId, scheduledTasks, liveJobs, message, used>>

processRoleSelection(p) ==
    \/ SelGet(p)
    \/ SelDelete(p)
    \/ SelUpdate(p)
    \/ SelActive(p)
    \/ SelHosting(p)
    \/ SelAdd(p)

(***************************************************************************)
(* createSession / continueSessionInChannel, run by process "create".      *)
(***************************************************************************)
FreeIds == {s \in Sessions : status[s] = NoSession}

TerminalSessions == {s \in Sessions : status[s] \in {"COMPLETED", "CANCELED"}}

\* getLastCompletedSessionInChannel: orderBy date desc, first
LastCompleted == {s \in TerminalSessions : \A s2 \in TerminalSessions : date[s2] <= date[s]}

\* continueSession: the creator as GAME_MASTER, then every other member of the
\* previous party.  The list has no repeated element, so a set holds it.
ContinueParty(u, previous) ==
    {Member(u, "GAME_MASTER")} \cup {m \in previous : m.userId # u}

\* continueSession's party.length: one for the creator, one per member pushed
ContinuePartyLength(u, previous) == 1 + Cardinality({m \in previous : m.userId # u})

\* repository createSession: the creator as GAME_MASTER, then the members of
\* the party given whose role is not GAME_MASTER
createSessionInDb(u, givenParty) ==
    {Member(u, "GAME_MASTER")} \cup {m \in givenParty : m.role # "GAME_MASTER"}

isSessionValid(u, d, t) ==
    /\ isFutureDate(d, t)
    /\ ~isUserHostingOnDate(u, d)
    /\ ~isUserMemberOnDate(u, d)

StartCreate(u, d, kind) ==
    /\ pc["create"] = "idle"
    /\ used.creates < MaxCreates
    /\ FreeIds # {}
    /\ GotoWith("create", IF kind = "continue" THEN "k_last" ELSE "k_valid",
                [sid |-> 0, user |-> u, date |-> d, kind |-> kind, previous |-> {}])
    /\ Bump("creates")
    /\ UNCHANGED <<now, store, scheduledTasks, liveJobs, message>>

CreateLast ==
    /\ pc["create"] = "k_last"
    /\ IF LastCompleted = {}
       THEN Done("create")
       ELSE \E last \in LastCompleted :
               GotoWith("create", "k_valid", [loc["create"] EXCEPT !.previous = party[last]])
    /\ UNCHANGED <<now, store, scheduledTasks, liveJobs, message, used>>

CreateValid ==
    /\ pc["create"] = "k_valid"
    /\ IF isSessionValid(loc["create"].user, loc["create"].date, now)
       THEN Goto("create", "k_insert") /\ UNCHANGED loc
       ELSE Done("create")
    /\ UNCHANGED <<now, store, scheduledTasks, liveJobs, message, used>>

\* initSession: the session message is sent, the session row and its party
\* rows are created, and the tasks are scheduled.
CreateInsert ==
    /\ pc["create"] = "k_insert"
    /\ LET l == loc["create"]
           id == CHOOSE s \in FreeIds : \A s2 \in FreeIds : s <= s2
           givenParty == IF l.kind = "continue" THEN ContinueParty(l.user, l.previous)
                         ELSE {Member(l.user, "GAME_MASTER")}
           length == IF l.kind = "continue" THEN ContinuePartyLength(l.user, l.previous)
                     ELSE 1
       IN /\ status' = [status EXCEPT ![id] = "SCHEDULED"]
          /\ date' = [date EXCEPT ![id] = l.date]
          /\ eventId' = [eventId EXCEPT ![id] = FALSE]
          /\ party' = [party EXCEPT ![id] = createSessionInDb(l.user, givenParty)]
          /\ message' = [message EXCEPT ![id] = [status |-> "SCHEDULED", description |-> NoReason]]
          /\ SetSched(scheduleSessionTasks(Sched, id, l.date, now))
          /\ IF l.kind = "continue" /\ length >= PartyCapacity
             THEN GotoWith("create", "k_full", [l EXCEPT !.sid = id])
             ELSE Done("create")
    /\ UNCHANGED <<now, used>>

CreateFull ==
    /\ pc["create"] = "k_full"
    /\ status' = [status EXCEPT ![loc["create"].sid] = "FULL"]
    /\ Goto("create", "k_event")
    /\ UNCHANGED <<now, date, party, eventId, scheduledTasks, liveJobs, message, loc, used>>

\* createScheduledEvent may yield no event; an event id is stored.
CreateEvent ==
    /\ pc["create"] = "k_event"
    /\ \E created \in BOOLEAN :
          eventId' = [eventId EXCEPT ![loc["create"].sid] = created]
    /\ Goto("create", "k_regen")
    /\ UNCHANGED <<now, status, date, party, scheduledTasks, liveJobs, message, loc, used>>

CreateRegen ==
    /\ pc["create"] = "k_regen"
    /\ message' = [message EXCEPT ![loc["create"].sid] = Render(loc["create"].sid, NoReason)]
    /\ Done("create")
    /\ UNCHANGED <<now, store, scheduledTasks, liveJobs, used>>

continueSession == CreateLast \/ CreateValid \/ CreateInsert \/ CreateFull
                       \/ CreateEvent \/ CreateRegen

(***************************************************************************)
(* Process restart and initializeExistingSessions, run by process "init".  *)
(***************************************************************************)
EmptyMap == [x \in {} |-> NoJob]

\* The process stops (its memory and whatever it was doing are lost) and is
\* started again, at once or after some downtime.
Restart ==
    /\ used.restarts < MaxRestarts
    /\ \E t \in Instants : t >= now /\ now' = t
    /\ scheduledTasks' = EmptyMap
    /\ liveJobs' = {}
    /\ pc' = [p \in Procs |-> IF p = "init" THEN "i_list" ELSE "idle"]
    /\ loc' = [p \in Procs |-> Idle]
    /\ Bump("restarts")
    /\ UNCHANGED <<store, message>>

InitList ==
    /\ pc["init"] = "i_list"
    /\ InitResume(handleMissedSessions(Sched, PendingSessions, 1, now), PendingSessions)
    /\ UNCHANGED <<now, store, message, used>>

\* A reconciliation that activates the session whatever the size of its party.
InitGetNeverCancels ==
    /\ pc["init"] = "i_get"
    /\ Goto("init", "i_active")
    /\ UNCHANGED <<now, store, scheduledTasks, liveJobs, message, loc, used>>

InitGet ==
    /\ pc["init"] = "i_get"
    /\ Goto("init", IF partySize(loc["init"].sid) >= PartyCapacity THEN "i_active" ELSE "cs_get")
    /\ UNCHANGED <<now, store, scheduledTasks, liveJobs, message, loc, used>>

\* A reconciliation of a full party that does not write the ACTIVE status.
InitActiveKeepsStatus ==
    /\ pc["init"] = "i_active"
    /\ LET l == loc["init"]
           s == l.pending[l.idx]
       IN IF isFutureDate(getHoursAfter(s.date, CompletionHours), now)
          THEN InitResume(handleMissedSessions(
                              scheduleSessionTasks(Sched, s.id, s.date, now),
                              l.pending, l.idx + 1, now),
                          l.pending)
          ELSE /\ Goto("init", "es_get")
               /\ UNCHANGED <<scheduledTasks, liveJobs, loc>>
    /\ UNCHANGED <<now, store, message, used>>

InitActive ==
    /\ pc["init"] = "i_active"
    /\ LET l == loc["init"]
           s == l.pending[l.idx]
       IN /\ status' = [status EXCEPT ![s.id] = "ACTIVE"]
          /\ IF isFutureDate(getHoursAfter(s.date, CompletionHours), now)
             THEN InitResume(handleMissedSessions(
                                 scheduleSessionTasks(Sched, s.id, s.date, now),
                                 l.pending, l.idx + 1, now),
                             l.pending)
             ELSE /\ Goto("init", "es_get")
                  /\ UNCHANGED <<scheduledTasks, liveJobs, loc>>
    /\ UNCHANGED <<now, date, party, eventId, message, used>>

initializeExistingSessions == InitList \/ InitGet \/ InitActive

\* The awaits of the loop body whose rejection reaches the catch of the loop:
\* getSessionById and updateSession in handleMissedSessions, getSession and
\* the status write in cancelSession and endSession.
ThrowingSteps == {"i_get", "i_active", "cs_get", "cs_update", "es_get", "es_update"}

\* A reconciliation whose catch is around the whole loop: it ends at the
\* first rejected call.
InitFailAborts ==
    /\ pc["init"] \in ThrowingSteps
    /\ Cardinality(used.failed) < MaxFaults
    /\ used' = [used EXCEPT !.failed = @ \cup {loc["init"].sid}]
    /\ Done("init")
    /\ UNCHANGED <<now, store, scheduledTasks, liveJobs, message>>

\* The call the reconciliation awaits is rejected: the catch inside the loop
\* logs the error and the loop goes on with the next session.
InitFail ==
    /\ pc["init"] \in ThrowingSteps
    /\ Cardinality(used.failed) < MaxFaults
    /\ used' = [used EXCEPT !.failed = @ \cup {loc["init"].sid}]
    /\ InitResume(handleMissedSessions(Sched, loc["init"].pending, loc["init"].idx + 1, now),
                  loc["init"].pending)
    /\ UNCHANGED <<now, store, message>>

(***************************************************************************)
(* Rejected calls outside the reconciliation.  An awaited call of process  *)
(* p is rejected and the handler goes on as its try/catch blocks say.      *)
(***************************************************************************)
Rejected(p) ==
    /\ Cardinality(used.failed) < MaxFaults
    /\ used' = [used EXCEPT !.failed = @ \cup {loc[p].sid}]

\* What a process holds once the operation named has thrown to its caller.
Thrown(p, op) == [sid |-> 0, threw |-> op, of |-> loc[p].sid]

\* cancelSession or endSession throws.  The command handler gets the error;
\* cancelUnfilledSession catches it and goes to its fallback write;
\* handleCompletion catches it and its finally block clears the tasks.
Throw(p, op) ==
    CASE p = "fill" ->
            /\ GotoWith(p, "f_fallback", [sid |-> loc[p].sid, threw |-> op])
            /\ UNCHANGED <<scheduledTasks, liveJobs>>
      [] p = "completion" ->
            /\ SetSched(cancelSessionTasks(Sched, loc[p].sid))
            /\ GotoWith(p, "idle", Thrown(p, op))
      [] OTHER ->
            /\ GotoWith(p, "idle", Thrown(p, op))
            /\ UNCHANGED <<scheduledTasks, liveJobs>>

OnlineCancelCallers == CancelCallers \ {"init"}

OnlineEndCallers == EndCallers \ {"init"}

CancelGetFails(p) ==
    /\ pc[p] = "cs_get"
    /\ Rejected(p)
    /\ Throw(p, "cancelSession")
    /\ UNCHANGED <<now, store, message>>

CancelEventFails(p) ==
    /\ pc[p] = "cs_event"
    /\ Rejected(p)
    /\ Goto(p, "cs_update")
    /\ UNCHANGED <<now, store, scheduledTasks, liveJobs, message, loc>>

CancelUpdateFails(p) ==
    /\ pc[p] = "cs_update"
    /\ Rejected(p)
    /\ Throw(p, "cancelSession")
    /\ UNCHANGED <<now, store, message>>

\* A rejected message update that is thrown on instead of logged.
CancelRegenFailsAndThrows(p) ==
    /\ pc[p] = "cs_regen"
    /\ Rejected(p)
    /\ Throw(p, "cancelSession")
    /\ UNCHANGED <<now, store, message>>

CancelRegenFails(p) ==
    /\ pc[p] = "cs_regen"
    /\ Rejected(p)
    /\ Goto(p, "cs_notify")
    /\ UNCHANGED <<now, store, scheduledTasks, liveJobs, message, loc>>

CancelNotifyFails(p) ==
    /\ pc[p] = "cs_notify"
    /\ Rejected(p)
    /\ Finish(p)
    /\ UNCHANGED <<now, store, message>>

cancelSessionFails(p) ==
    \/ CancelGetFails(p)
    \/ CancelEventFails(p)
    \/ CancelUpdateFails(p)
    \/ CancelRegenFails(p)
    \/ CancelNotifyFails(p)

EndGetFails(p) ==
    /\ pc[p] = "es_get"
    /\ Rejected(p)
    /\ Throw(p, "endSession")
    /\ UNCHANGED <<now, store, message>>

EndEventFails(p) ==
    /\ pc[p] = "es_event"
    /\ Rejected(p)
    /\ Goto(p, "es_update")
    /\ UNCHANGED <<now, store, scheduledTasks, liveJobs, message, loc>>

EndUpdateFails(p) ==
    /\ pc[p] = "es_update"
    /\ Rejected(p)
    /\ Throw(p, "endSession")
    /\ UNCHANGED <<now, store, message>>

EndRegenFails(p) ==
    /\ pc[p] = "es_regen"
    /\ Rejected(p)
    /\ Finish(p)
    /\ UNCHANGED <<now, store, message>>

endSessionFails(p) ==
    \/ EndGetFails(p)
    \/ EndEventFails(p)
    \/ EndUpdateFails(p)
    \/ EndRegenFails(p)

\* handleCancellation: a rejected read ends the callback in the outer catch,
\* before the tasks are cleared; a rejected ACTIVE write and a rejected
\* message update are logged and the callback goes on.
FillGetFails ==
    /\ pc["fill"] = "f_get"
    /\ Rejected("fill")
    /\ Done("fill")
    /\ UNCHANGED <<now, store, scheduledTasks, liveJobs, message>>

FillActiveFails ==
    /\ pc["fill"] = "f_active"
    /\ Rejected("fill")
    /\ Goto("fill", "f_regen")
    /\ UNCHANGED <<now, store, scheduledTasks, liveJobs, message, loc>>

FillRegenFails ==
    /\ pc["fill"] = "f_regen"
    /\ Rejected("fill")
    /\ Finish("fill")
    /\ UNCHANGED <<now, store, message>>

\* cancelUnfilledSession's fallback: the CANCELED status is written directly.
FillFallback ==
    /\ pc["fill"] = "f_fallback"
    /\ status' = [status EXCEPT ![loc["fill"].sid] = "CANCELED"]
    /\ Finish("fill")
    /\ UNCHANGED <<now, date, party, eventId, message, used>>

handleCancellationFails == FillGetFails \/ FillActiveFails \/ FillRegenFails \/ FillFallback

\* handleCompletion: a rejected read is caught, the finally block clears the
\* tasks.
CompletionGetFails ==
    /\ pc["completion"] = "c_get"
    /\ Rejected("completion")
    /\ Finish("completion")
    /\ UNCHANGED <<now, store, message>>

\* handleReminder: whatever is rejected, the finally block clears the
\* reminder slot.
ReminderFails ==
    /\ pc["reminder"] \in {"r_get", "r_notify"}
    /\ Rejected("reminder")
    /\ SetSched(clearReminderTask(Sched, loc["reminder"].sid))
    /\ Done("reminder")
    /\ UNCHANGED <<now, store, message>>

\* processRoleSelection has no try/catch: a rejected read or write (getSession
\* uses findUniqueOrThrow) rejects the promise it returned.
SelFails(p) ==
    /\ pc[p] \in {"s_get", "s_delete", "s_update", "s_active", "s_hosting", "s_add"}
    /\ Rejected(p)
    /\ Return(p, "THROWN")
    /\ UNCHANGED <<now, store, scheduledTasks, liveJobs, message>>

Faults ==
    \/ \E p \in OnlineCancelCallers : cancelSessionFails(p)
    \/ \E p \in OnlineEndCallers : endSessionFails(p)
    \/ handleCancellationFails
    \/ CompletionGetFails
    \/ ReminderFails

(***************************************************************************)
(* shutdown(): every entry of the registry is visited, its jobs are        *)
(* stopped inside one try block per entry, and the registry is cleared.    *)
(***************************************************************************)
SlotOrder == <<"reminderJob", "cancellationJob", "completionJob">>

AllRegistered(r) == UNION {JobsOf(r.tasks[s]) : s \in DOMAIN r.tasks}

shutdownAll(r) == [tasks |-> EmptyMap, jobs |-> r.jobs \ AllRegistered(r)]

\* stop() of the job in slot k of session s throws.  The jobs of the earlier
\* slots of s were stopped, the job itself may or may not have been, the
\* later slots of s are skipped; the catch logs and the loop goes on.
StoppedBeforeError(task, k, stopped) ==
    ({task[SlotOrder[i]] : i \in 1..(k - 1)}
        \cup (IF stopped THEN {task[SlotOrder[k]]} ELSE {})) \ {NoJob}

shutdownWithError(r, s, k, stopped) ==
    [tasks |-> EmptyMap,
     jobs |-> r.jobs \ (AllRegistered([r EXCEPT !.tasks = MapDelete(r.tasks, s)])
                          \cup StoppedBeforeError(r.tasks[s], k, stopped))]

shutdown ==
    /\ used.restarts < MaxRestarts
    /\ SetSched(shutdownAll(Sched))
    /\ Bump("restarts")
    /\ UNCHANGED <<now, store, message, pc, loc>>

shutdownFails ==
    /\ used.restarts < MaxRestarts
    /\ Cardinality(used.failed) < MaxFaults
    /\ \E s \in DOMAIN scheduledTasks, k \in 1..3, stopped \in BOOLEAN :
          /\ scheduledTasks[s][SlotOrder[k]] # NoJob
          /\ SetSched(shutdownWithError(Sched, s, k, stopped))
          /\ used' = [used EXCEPT !.failed = @ \cup {s}, !.restarts = @ + 1]
    /\ UNCHANGED <<now, store, message, pc, loc>>

(***************************************************************************)
(* Initial states: the process starts on a store that holds one session:   *)
(* one created or continued earlier and not yet started (a continued       *)
(* session is FULL with 6 rows, or with 5 when the previous game master    *)
(* was not carried over), or one that was activated at its fill deadline   *)
(* just before the process was started.                                    *)
(***************************************************************************)
SeedParty(k) == {Member(1, "GAME_MASTER")} \cup {Member(u, "TANK") : u \in 2..k}

SeedSizes == {1, PartyCapacity - 1, PartyCapacity}

Boot(t, st, k, d, ev) ==
    /\ now = t
    /\ status = [s \in Sessions |-> IF s = 1 THEN st ELSE NoSession]
    /\ date = [s \in Sessions |-> IF s = 1 THEN d ELSE 0]
    /\ party = [s \in Sessions |-> IF s = 1 THEN SeedParty(k) ELSE {}]
    /\ eventId = [s \in Sessions |-> s = 1 /\ ev]
    /\ scheduledTasks = EmptyMap
    /\ liveJobs = {}
    /\ message = [s \in Sessions |-> [status |-> IF s = 1 THEN st ELSE NoSession,
                                      description |-> NoReason]]
    /\ pc = [p \in Procs |-> IF p = "init" THEN "i_list" ELSE "idle"]
    /\ loc = [p \in Procs |-> Idle]
    /\ used = [manual |-> 0, restarts |-> 0, requests |-> 0, creates |-> 0, failed |-> {}]

Init ==
    \E d \in Dates :
        \/ \E k \in SeedSizes : Boot(0, "SCHEDULED", k, d, FALSE)
        \/ \E k \in {PartyCapacity - 1, PartyCapacity}, ev \in BOOLEAN :
              Boot(0, "FULL", k, d, ev)
        \/ \E ev \in BOOLEAN :
              Boot(getMinutesBefore(d, CancelMinutes), "ACTIVE", PartyCapacity, d, ev)

\* The process starts on a store that holds two sessions, the first of which
\* has reached its start.  A session is ACTIVE only from its fill deadline on
\* and with a full party; only a continued session is FULL.
BootTwo(t, st1, k1, st2, k2, ev) ==
    /\ now = t
    /\ status = [s \in Sessions |-> IF s = 1 THEN st1 ELSE IF s = 2 THEN st2 ELSE NoSession]
    /\ date = [s \in Sessions |-> IF s \in {1, 2} THEN s * 70 ELSE 0]
    /\ party = [s \in Sessions |-> IF s = 1 THEN SeedParty(k1)
                                    ELSE IF s = 2 THEN SeedParty(k2) ELSE {}]
    /\ eventId = [s \in Sessions |-> s \in {1, 2} /\ ev]
    /\ scheduledTasks = EmptyMap
    /\ liveJobs = {}
    /\ message = [s \in Sessions |-> [status |-> status[s], description |-> NoReason]]
    /\ pc = [p \in Procs |-> IF p = "init" THEN "i_list" ELSE "idle"]
    /\ loc = [p \in Procs |-> Idle]
    /\ used = [manual |-> 0, restarts |-> 0, requests |-> 0, creates |-> 0, failed |-> {}]

SeedStates(t, d) ==
    {<<"SCHEDULED", k>> : k \in {PartyCapacity - 1, PartyCapacity}}
        \cup {<<"FULL", PartyCapacity>>}
        \cup (IF t >= getMinutesBefore(d, CancelMinutes)
              THEN {<<"ACTIVE", PartyCapacity>>} ELSE {})

InitTwo ==
    \E t \in {i \in Instants : i >= 70} :
        \E a \in SeedStates(t, 70), b \in SeedStates(t, 140), ev \in BOOLEAN :
            BootTwo(t, a[1], a[2], b[1], b[2], ev)


Timers ==
    \/ \E j \in liveJobs : FireJob(j)
    \/ handleReminder
    \/ FillGet
    \/ FillActive
    \/ FillRegen
    \/ CompletionGet
    \/ Tick

Calls ==
    \/ \E p \in CancelCallers : cancelSession(p)
    \/ \E p \in EndCallers : endSession(p)

Manual ==
    \/ \E s \in Sessions : StartCancel(s)
    \/ \E s \in Sessions : StartEnd(s)
    \/ \E s \in Sessions : StartModify(s)
    \/ modifySession

Recovery == Restart \/ initializeExistingSessions

Next == Timers \/ Calls \/ Manual \/ Recovery

Spec == Init /\ [][Next]_vars

\* The process runs without a restart and without manual operations: the
\* startup scheduling, the timers and their callbacks.  Node's event loop runs
\* every callback that is ready and fires every timer that is due.
NextLive == InitList \/ Timers \/ cancelSession("fill") \/ endSession("completion")

SpecLive == Init /\ [][NextLive]_vars /\ WF_vars(NextLive)

\* The process may stop and start again; nobody cancels, ends or modifies a
\* session by hand.
NextRecovery == Timers \/ Calls \/ Recovery

SpecRecovery == Init /\ [][NextRecovery]_vars

\* The same, with every callback that is ready run and every due timer fired.
\* A restart is something that may happen, not something that must.
SpecRecoveryLive ==
    Init /\ [][NextRecovery]_vars
         /\ WF_vars(Timers \/ Calls \/ initializeExistingSessions)

\* Startup on two sessions, with calls of the reconciliation that may be
\* rejected; the timers it installs run.
NextIsolation == Timers \/ Calls \/ initializeExistingSessions \/ InitFail

SpecIsolation == InitTwo /\ [][NextIsolation]_vars

\* The users who send requests: the creator of the seeded session and two
\* users who are in no party at the start.
Requesters == {1, MaxUsers - 1, MaxUsers}

\* The requests of one behaviour, of whatever kind, are MaxOps at most.
OpsLeft == used.manual + used.requests + used.creates < MaxOps

\* Role selection and session creation between the start of the process and
\* the first timer instant, with the manual cancel that ends a session.  A new
\* session is given the last of the dates, all of which fall on one day.
NextRoster ==
    \/ InitList
    \/ \E s \in Sessions : OpsLeft /\ StartCancel(s)
    \/ cancelSession("cancel")
    \/ \E p \in SelProcs, s \in Sessions, u \in Requesters, role \in Roles :
          OpsLeft /\ StartSelect(p, s, u, role)
    \/ \E p \in SelProcs : processRoleSelection(p)
    \/ \E u \in {1, MaxUsers}, kind \in {"create", "continue"} :
          OpsLeft /\ StartCreate(u, MaxDates * 70, kind)
    \/ continueSession

SpecRoster == Init /\ [][NextRoster]_vars

\* Role selection on two stored sessions while the clock runs: the requests
\* arrive one after the other, between the steps of the startup
\* reconciliation and of the timer callbacks.  The senders are the creator,
\* a member of both parties and a user who is in no party.
SelectUsers == {1, 2, MaxUsers}

NextSelect ==
    \/ Timers
    \/ Calls
    \/ initializeExistingSessions
    \/ \E s \in Sessions, u \in SelectUsers, role \in Roles : StartSelect("sel1", s, u, role)
    \/ processRoleSelection("sel1")

SpecSelect == InitTwo /\ [][NextSelect]_vars

\* The timers, the manual operations and restarts, with calls that may be
\* rejected.
NextFaults == Next \/ Faults

SpecFaults == Init /\ [][NextFaults]_vars

\* Role selection on two stored sessions at one instant, with calls that may
\* be rejected.
NextSelectFaults ==
    \/ \E s \in Sessions, u \in SelectUsers, role \in Roles : StartSelect("sel1", s, u, role)
    \/ processRoleSelection("sel1")
    \/ SelFails("sel1")

SpecSelectFaults == InitTwo /\ [][NextSelectFaults]_vars

\* Startup on two sessions and the timers it installs, with a shutdown of the
\* scheduler during which a stop may throw.  The process lives on for a while
\* after shutdown() has returned.
NextShutdown == Timers \/ Calls \/ initializeExistingSessions \/ shutdown \/ shutdownFails

SpecShutdown == InitTwo /\ [][NextShutdown]_vars

\* Creation, continuation and modification between the start of the process
\* and the first timer instant, with the manual cancel that ends a session.
\* A new session is given the last date of the day or a date of the next day;
\* a modification proposes one of the dates of the day.
CreateDates == {MaxDates * 70, 1440 + 70}

NextHosting ==
    \/ InitList
    \/ \E s \in Sessions : StartCancel(s)
    \/ cancelSession("cancel")
    \/ \E u \in {1, MaxUsers}, d \in CreateDates, kind \in {"create", "continue"} :
          StartCreate(u, d, kind)
    \/ continueSession
    \/ \E s \in Sessions : StartModify(s)
    \/ modifySession

SpecHosting == Init /\ [][NextHosting]_vars

(***************************************************************************)
(* Properties.                                                             *)
(***************************************************************************)
Terminal == {"COMPLETED", "CANCELED"}

Installed(tasks, jobs, s, field) ==
    /\ s \in DOMAIN tasks
    /\ tasks[s][field] # NoJob
    /\ tasks[s][field] \in jobs

NoTimerFor(tasks, jobs, s) ==
    /\ s \notin DOMAIN tasks
    /\ \A j \in jobs : j.sid # s

\* Process p takes its step at position l (the process is not being stopped).
Step(p, l) == pc[p] = l /\ pc'[p] # l /\ used'.restarts = used.restarts

\* C1: once the persisted status of a session is COMPLETED or CANCELED, no
\* step of any operation changes it.
C1_TerminalIsFinal ==
    [][\A s \in Sessions : status[s] \in Terminal => status'[s] = status[s]]_vars

\* Every persisted roster has at most 6 members.
RosterWithinCapacity == \A s \in Sessions : Cardinality(party[s]) <= 6

\* Two requests of different absent users for the same session, each of which
\* read a roster of 5 and went on to the conditional insert, have returned.
RacingPairReturned ==
    /\ \A p \in SelProcs : /\ pc[p] = "idle"
                            /\ "outcome" \in DOMAIN loc[p]
                            /\ loc[p].size = 5
                            /\ loc[p].outcome \in {"ADDED_TO_PARTY", "PARTY_FULL"}
    /\ loc["sel1"].sid = loc["sel2"].sid
    /\ loc["sel1"].user # loc["sel2"].user

RacingPairOneWins ==
    RacingPairReturned =>
        {loc["sel1"].outcome, loc["sel2"].outcome} = {"ADDED_TO_PARTY", "PARTY_FULL"}

\* C2: after any interleaving of session creation, continuation and role
\* selection every persisted roster has at most 6 members, and of two
\* concurrent requests for the one remaining slot exactly one is answered
\* ADDED_TO_PARTY and the other PARTY_FULL.
C2_CapacityInvariant == RosterWithinCapacity /\ RacingPairOneWins

\* C3: when the fill-deadline callback finds the roster full, its status write
\* leaves the session ACTIVE, and the completion timer that was installed when
\* the callback's last step began is still installed when the callback has
\* returned.
C3_FullBranchKeepsCompletion ==
    [][LET s == loc["fill"].sid
       IN /\ Step("fill", "f_active") => status'[s] = "ACTIVE"
          /\ (Step("fill", "f_regen")
                /\ Installed(scheduledTasks, liveJobs, s, "completionJob"))
                => Installed(scheduledTasks', liveJobs', s, "completionJob")]_vars

\* C4: without restart and manual operations, a session that the fill-deadline
\* callback has made ACTIVE is eventually COMPLETED.
C4_ActiveEventuallyCompleted ==
    \A s \in Sessions :
        (pc["fill"] = "f_regen" /\ loc["fill"].sid = s /\ status[s] = "ACTIVE")
            ~> (status[s] = "COMPLETED")

\* C5: when the fill-deadline callback reads a roster of n < 6 members, it
\* cancels the session: its status write leaves the session CANCELED, the
\* reason it gives is "Insufficient players (n/6)", and when it has returned
\* the registry holds no timer of the session.
C5_ShortfallBranchCancels ==
    [][LET s == loc["fill"].sid
       IN /\ (Step("fill", "f_get") /\ partySize(s) < 6)
                => /\ pc'["fill"] = "cs_get"
                   /\ loc'["fill"].reason =
                         [text |-> "Insufficient players", size |-> partySize(s), of |-> 6]
          /\ (Step("fill", "f_get") /\ partySize(s) >= 6) => pc'["fill"] = "f_active"
          /\ Step("fill", "cs_update") => status'[s] = "CANCELED"
          /\ Step("fill", "cs_regen") => message'[s].description = loc["fill"].reason
          /\ Step("fill", "cs_notify")
                => pc'["fill"] = "idle" /\ NoTimerFor(scheduledTasks', liveJobs', s)]_vars

\* C5 witness: the fill-deadline callback has cancelled a session of 5
\* members and returned.
C5_Witness ==
    \E s \in Sessions :
        /\ status[s] = "CANCELED"
        /\ message[s] = [status |-> "CANCELED",
                         description |-> [text |-> "Insufficient players",
                                          size |-> 5, of |-> 6]]
        /\ pc["fill"] = "idle"
        /\ NoTimerFor(scheduledTasks, liveJobs, s)

\* C6: when the completion callback reads a status other than ACTIVE it
\* leaves the persisted status as it is; and whenever the completion callback
\* returns, whatever it read, the session has no registry entry.
C6_CompletionGuard ==
    [][LET s == loc["completion"].sid
       IN /\ (Step("completion", "c_get") /\ status[s] # "ACTIVE")
                => status' = status /\ pc'["completion"] = "idle"
          /\ (pc["completion"] # "idle" /\ pc'["completion"] = "idle"
                /\ used'.restarts = used.restarts)
                => NoTimerFor(scheduledTasks', liveJobs', s)]_vars

\* C6 witness: the completion timer has fired for a session that is not
\* ACTIVE, and its callback is at its read.
C6_Witness ==
    /\ pc["completion"] = "c_get"
    /\ status[loc["completion"].sid] \in {"SCHEDULED", "FULL", "COMPLETED", "CANCELED"}
    /\ loc["completion"].sid \in DOMAIN scheduledTasks

LegalTransitions ==
    {<<"SCHEDULED", "FULL">>, <<"SCHEDULED", "CANCELED">>, <<"SCHEDULED", "ACTIVE">>,
     <<"FULL", "ACTIVE">>, <<"FULL", "CANCELED">>,
     <<"ACTIVE", "COMPLETED">>, <<"ACTIVE", "CANCELED">>}

\* C7: every change of a session's persisted status is one of the seven
\* legal transitions.
C7_LegalTransitionsOnly ==
    [][\A s \in Sessions :
          (status[s] # NoSession /\ status'[s] # status[s])
             => <<status[s], status'[s]>> \in LegalTransitions]_vars

SlotField(slot) ==
    CASE slot = "reminder" -> "reminderJob"
      [] slot = "fill" -> "cancellationJob"
      [] slot = "completion" -> "completionJob"

\* C8: every running timer is the one its session's registry entry holds in
\* the timer's slot: one task set per session, one outstanding timer per slot,
\* and no timer of a replaced set left running.
C8_IdempotentReplace ==
    \A j \in liveJobs :
        /\ j.sid \in DOMAIN scheduledTasks
        /\ scheduledTasks[j.sid][SlotField(j.slot)] = j

\* C8 witness: modifySession has just rescheduled a session that had a task
\* set, and the new set's three timers run.
C8_Witness ==
    /\ pc["modify"] = "m_regen"
    /\ LET s == loc["modify"].sid
       IN /\ s \in DOMAIN scheduledTasks
          /\ Cardinality({j \in liveJobs : j.sid = s}) = 3
          /\ date[s] = 140

\* C9: scheduleSessionTasks(id, start) called at the current instant on the
\* current registry installs the reminder timer iff start - 1h is in the
\* future, the fill-deadline timer iff start - 5min is, the completion timer
\* iff start + 5h is, and leaves no entry for id when none is.
C9_InstallsFutureTimersOnly ==
    \A s \in Sessions : \A d \in Dates :
        LET r == scheduleSessionTasks(Sched, s, d, now)
        IN /\ Installed(r.tasks, r.jobs, s, "reminderJob") <=> d - 60 > now
           /\ Installed(r.tasks, r.jobs, s, "cancellationJob") <=> d - 5 > now
           /\ Installed(r.tasks, r.jobs, s, "completionJob") <=> d + 300 > now
           /\ (d + 300 <= now) => NoTimerFor(r.tasks, r.jobs, s)
           /\ \A j \in r.jobs : j.sid = s =>
                 /\ j.at = (CASE j.slot = "reminder" -> d - 60
                              [] j.slot = "fill" -> d - 5
                              [] j.slot = "completion" -> d + 300)
                 /\ r.tasks[s][SlotField(j.slot)] = j

\* C9 witness: a session was scheduled when its reminder instant had passed
\* and its fill-deadline had not: its entry holds no reminder timer, and its
\* fill-deadline and completion timers run.
C9_Witness ==
    \E s \in DOMAIN scheduledTasks :
        /\ now < date[s] - 5
        /\ scheduledTasks[s].reminderJob = NoJob
        /\ Installed(scheduledTasks, liveJobs, s, "cancellationJob")
        /\ Installed(scheduledTasks, liveJobs, s, "completionJob")
        /\ pc["reminder"] = "idle"
        /\ used.restarts = 1

\* Nothing is running and no timer is left: the statuses are final.
Quiescent == (\A p \in Procs : pc[p] = "idle") /\ liveJobs = {}

\* The status a session reaches when its fill-deadline and completion timers
\* fire on schedule: CANCELED with fewer than 6 members, else ACTIVE and then
\* COMPLETED.
OnSchedule(s) == IF partySize(s) < 6 THEN "CANCELED" ELSE "COMPLETED"

\* C10: whenever the process was started or restarted, the status a session
\* has once the reconciliation and the timers it installed have run is the
\* status it reaches when every timer fires on schedule.
C10_RecoveryEquivalence ==
    \A s \in Sessions : (Quiescent /\ status[s] # NoSession) => status[s] = OnSchedule(s)

\* The reconciliation is about to read the sessions, and session s is ACTIVE
\* with its completion instant passed.
OverdueActiveAtStartup(s) ==
    /\ pc["init"] = "i_list"
    /\ status[s] = "ACTIVE"
    /\ ~(date[s] + 300 > now)

\* C11: a session that is ACTIVE with start + 5h passed when
\* initializeExistingSessions runs ends COMPLETED, with no registry entry and
\* no timer.
C11_OverdueActiveIsCompleted ==
    \A s \in Sessions :
        OverdueActiveAtStartup(s)
            ~> (status[s] = "COMPLETED" /\ pc["init"] = "idle"
                  /\ NoTimerFor(scheduledTasks, liveJobs, s))

\* C11 witness: the reconciliation, having found the session ACTIVE and
\* overdue, has ended it and returned.
C11_Witness ==
    /\ pc["init"] = "es_regen"
    /\ LET l == loc["init"]
       IN /\ l.pending[l.idx].status = "ACTIVE"
          /\ status[l.sid] = "COMPLETED"
          /\ ~(date[l.sid] + 300 > now)
          /\ NoTimerFor(scheduledTasks, liveJobs, l.sid)

\* The reconciliation returns in this step.
InitReturns ==
    pc["init"] # "idle" /\ pc'["init"] = "idle" /\ used'.restarts = used.restarts

\* The sessions the reconciliation that is under way works on.
PendingOfInit == IF pc["init"] = "i_list" THEN PendingSessions ELSE loc["init"].pending

\* What the reconciliation owes the pending session x when it returns: the
\* task set of a session still to start; for one that has started, COMPLETED
\* if it was ACTIVE and overdue, its completion timer if it was ACTIVE and
\* not overdue, CANCELED if its party is short, else ACTIVE with the
\* completion timer, or COMPLETED when that instant has passed too.
ReconciledWhenReturned(x) ==
    LET s == x.id
        overdue == ~(x.date + 300 > now)
    IN IF x.date > now
       THEN /\ s \in DOMAIN scheduledTasks'
            /\ scheduledTasks'[s] = NewTask(s, x.date, now)
            /\ JobsOf(scheduledTasks'[s]) \subseteq liveJobs'
       ELSE IF x.status = "ACTIVE"
       THEN IF overdue
            THEN status'[s] = "COMPLETED" /\ NoTimerFor(scheduledTasks', liveJobs', s)
            ELSE status'[s] = "ACTIVE"
                    /\ Installed(scheduledTasks', liveJobs', s, "completionJob")
       ELSE IF partySize(s) < 6
       THEN status'[s] = "CANCELED" /\ NoTimerFor(scheduledTasks', liveJobs', s)
       ELSE IF overdue
       THEN status'[s] = "COMPLETED" /\ NoTimerFor(scheduledTasks', liveJobs', s)
       ELSE status'[s] = "ACTIVE"
               /\ Installed(scheduledTasks', liveJobs', s, "completionJob")

\* C12: when the reconciliation returns, every pending session other than
\* those whose processing raised an error is reconciled, and every session
\* still to start has its task set installed.
C12_RecoveryIsolation ==
    [][InitReturns =>
          \A i \in 1..Len(PendingOfInit) :
              PendingOfInit[i].id \notin used'.failed
                  => ReconciledWhenReturned(PendingOfInit[i])]_vars

\* C12 witness: the processing of session 1 raised an error, and session 2,
\* whose start had passed too, was cancelled by the reconciliation.
C12_Witness ==
    /\ used.failed = {1}
    /\ pc["init"] = "idle"
    /\ status[2] = "CANCELED"
    /\ message[2].description = RecoveredReason
    /\ status[1] \in {"SCHEDULED", "FULL", "ACTIVE"}

(***************************************************************************)
(* Role selection.                                                         *)
(***************************************************************************)
GameMasters(rows) == {m \in rows : m.role = "GAME_MASTER"}

\* Process p of processRoleSelection takes a step.
SelStep(p) == pc[p] # "idle" /\ pc'[p] # pc[p]

\* C13: every roster holds exactly one GAME_MASTER member, the one seeded at
\* creation: no step of a role-selection request, whoever sends it, removes
\* that member, changes its role or gives the role to another member.
C13_RoleSelectionKeepsGameMaster ==
    [][\A p \in SelProcs :
          SelStep(p) =>
              /\ GameMasters(party'[loc[p].sid]) = GameMasters(party[loc[p].sid])
              /\ Cardinality(GameMasters(party'[loc[p].sid])) = 1]_vars

\* The step in which request p has read the session and runs its checks.
SelReads(p) == pc[p] = "s_get" /\ pc'[p] # "s_get"

SelReturns(p, outcome) == pc'[p] = "idle" /\ loc'[p].outcome = outcome

\* What the checks answer to a request for the GAME_MASTER role.
GameMasterAnswer(s) ==
    IF status[s] # "SCHEDULED" THEN "LOCKED"
    ELSE IF ~isFutureDate(date[s], now) THEN "EXPIRED"
    ELSE "INVALID"

\* C14 (as stated): a request for the GAME_MASTER role returns INVALID
\* whatever the status and the start of the session, and mutates nothing.
C14_GameMasterAlwaysInvalid ==
    [][\A p \in SelProcs :
          SelReads(p) /\ loc[p].role = "GAME_MASTER"
              => SelReturns(p, "INVALID") /\ UNCHANGED store]_vars

\* C14 (amended): a request for the GAME_MASTER role mutates nothing and
\* returns at once: LOCKED when the session is not SCHEDULED, EXPIRED when it
\* is SCHEDULED and its start is not in the future, INVALID otherwise.
C14_GameMasterNeverAccepted ==
    [][\A p \in SelProcs :
          SelReads(p) /\ loc[p].role = "GAME_MASTER"
              => SelReturns(p, GameMasterAnswer(loc[p].sid)) /\ UNCHANGED store]_vars

C14_Witness ==
    /\ pc["sel1"] = "idle" /\ loc["sel1"] # Idle
    /\ loc["sel1"].role = "GAME_MASTER" /\ loc["sel1"].outcome = "INVALID"
    /\ status[loc["sel1"].sid] = "SCHEDULED"

\* C15: a request for an ordinary role on a session that is FULL, ACTIVE,
\* COMPLETED or CANCELED returns LOCKED, whoever sends it, and no roster row
\* is inserted, updated or deleted.
C15_LockedWhenNotScheduled ==
    [][\A p \in SelProcs :
          /\ SelReads(p)
          /\ loc[p].role \in OrdinaryRoles
          /\ status[loc[p].sid] \in {"FULL", "ACTIVE", "COMPLETED", "CANCELED"}
          => SelReturns(p, "LOCKED") /\ UNCHANGED store]_vars

C15_Witness ==
    /\ pc["sel1"] = "idle" /\ loc["sel1"] # Idle
    /\ loc["sel1"].role \in OrdinaryRoles /\ loc["sel1"].outcome = "LOCKED"
    /\ loc["sel1"].user = 2
    /\ status[loc["sel1"].sid] = "FULL"

\* C16: a request on a SCHEDULED session whose start is not in the future
\* returns EXPIRED and mutates no roster, whether the sender is in the roster
\* or not.
C16_ExpiredWhenStartReached ==
    [][\A p \in SelProcs :
          /\ SelReads(p)
          /\ status[loc[p].sid] = "SCHEDULED"
          /\ ~isFutureDate(date[loc[p].sid], now)
          => SelReturns(p, "EXPIRED") /\ UNCHANGED store]_vars

C16_Witness ==
    /\ pc["sel1"] = "idle" /\ loc["sel1"] # Idle
    /\ loc["sel1"].outcome = "EXPIRED"
    /\ loc["sel1"].role \in OrdinaryRoles
    /\ status[loc["sel1"].sid] = "SCHEDULED"
    /\ ~isFutureDate(date[loc["sel1"].sid], now)
    /\ \E m \in party[loc["sel1"].sid] : m.userId = loc["sel1"].user /\ m.role = loc["sel1"].role

\* The request p is for an ordinary role on a SCHEDULED session that starts in
\* the future.
Selectable(p) ==
    /\ status[loc[p].sid] = "SCHEDULED"
    /\ isFutureDate(date[loc[p].sid], now)
    /\ loc[p].role \in OrdinaryRoles

RowsOf(p) == {m \in party[loc[p].sid] : m.userId = loc[p].user}

UserIds(rows) == {m.userId : m \in rows}

\* C17: on a SCHEDULED session that starts in the future, a sender who is in
\* the roster and selects the role they hold is deleted from that roster: the
\* row of that user in that session goes, the roster is one smaller, no other
\* row of any session changes, and the outcome is REMOVED_FROM_PARTY.
C17_OptOutDeletesOwnRow ==
    [][\A p \in SelProcs :
          /\ SelReads(p) /\ Selectable(p) /\ Member(loc[p].user, loc[p].role) \in RowsOf(p)
                => pc'[p] = "s_delete" /\ UNCHANGED store
          /\ pc[p] = "s_delete" /\ pc'[p] # "s_delete"
                => /\ SelReturns(p, "REMOVED_FROM_PARTY")
                   /\ party' = [party EXCEPT ![loc[p].sid] =
                                   @ \ {Member(loc[p].user, loc[p].role)}]
                   /\ Cardinality(party'[loc[p].sid]) = Cardinality(party[loc[p].sid]) - 1
                   /\ UNCHANGED <<status, date, eventId>>]_vars

C17_Witness ==
    /\ pc["sel1"] = "idle" /\ loc["sel1"] # Idle
    /\ loc["sel1"].outcome = "REMOVED_FROM_PARTY"
    /\ loc["sel1"].user \notin UserIds(party[loc["sel1"].sid])
    /\ \E s \in Sessions : loc["sel1"].user \in UserIds(party[s])

\* C18: on a SCHEDULED session that starts in the future, a sender who is in
\* the roster and selects another ordinary role has the role of their own row
\* replaced: the users of the roster and its size stay, no other row changes,
\* and the outcome is ROLE_CHANGED.
C18_RoleChangeInPlace ==
    [][\A p \in SelProcs :
          /\ SelReads(p) /\ Selectable(p) /\ RowsOf(p) # {}
                         /\ Member(loc[p].user, loc[p].role) \notin RowsOf(p)
                => pc'[p] = "s_update" /\ UNCHANGED store
          /\ pc[p] = "s_update" /\ pc'[p] # "s_update"
                => /\ SelReturns(p, "ROLE_CHANGED")
                   /\ party' = [party EXCEPT ![loc[p].sid] =
                                   (@ \ RowsOf(p)) \cup {Member(loc[p].user, loc[p].role)}]
                   /\ UserIds(party'[loc[p].sid]) = UserIds(party[loc[p].sid])
                   /\ Cardinality(party'[loc[p].sid]) = Cardinality(party[loc[p].sid])
                   /\ UNCHANGED <<status, date, eventId>>]_vars

C18_Witness ==
    /\ pc["sel1"] = "idle" /\ loc["sel1"] # Idle
    /\ loc["sel1"].outcome = "ROLE_CHANGED"
    /\ loc["sel1"].user = 2
    /\ Member(2, "SUPPORT") \in party[loc["sel1"].sid]
    /\ Member(3, "TANK") \in party[loc["sel1"].sid]

\* The sender of request p is in the roster of no other session, and the
\* roster of the session has a free place.
NoOtherMembership(p) ==
    \A s \in Sessions \ {loc[p].sid} : loc[p].user \notin UserIds(party[s])

FreeCapacity(p) == Cardinality(party[loc[p].sid]) < PartyCapacity

Toggles == {"ADDED_TO_PARTY", "REMOVED_FROM_PARTY"}

\* The steps a request takes once it has passed the checks of status, start
\* and requested role.
PastChecks == {"s_delete", "s_update", "s_active", "s_hosting", "s_add"}

\* C19: for a user with no other membership and one ordinary role, on a
\* SCHEDULED session that starts in the future and has a free place, what a
\* request does is decided by whether the user is in the roster: absent, the
\* user is added (ADDED_TO_PARTY); present with that role, removed
\* (REMOVED_FROM_PARTY).  Sent again after it was answered with one of the
\* two, the same request is answered with the other and leaves the roster as
\* it was before the first.
C19_ToggleLaw ==
    [][\A p \in SelProcs :
          /\ SelReads(p) /\ Selectable(p) /\ NoOtherMembership(p)
                => /\ Member(loc[p].user, loc[p].role) \in RowsOf(p) => pc'[p] = "s_delete"
                   /\ RowsOf(p) = {} => pc'[p] = "s_active"
          /\ pc[p] \in PastChecks /\ pc'[p] # pc[p] /\ NoOtherMembership(p)
                => /\ pc[p] = "s_active" => pc'[p] = "s_hosting"
                   /\ pc[p] = "s_hosting" => pc'[p] = "s_add"
                   /\ pc[p] = "s_add" /\ FreeCapacity(p)
                         => /\ SelReturns(p, "ADDED_TO_PARTY")
                            /\ party'[loc[p].sid] =
                                  party[loc[p].sid] \cup {Member(loc[p].user, loc[p].role)}
                   /\ pc[p] = "s_delete"
                         => /\ SelReturns(p, "REMOVED_FROM_PARTY")
                            /\ party'[loc[p].sid] =
                                  party[loc[p].sid] \ {Member(loc[p].user, loc[p].role)}
          /\ (/\ pc[p] \in PastChecks /\ pc'[p] = "idle" /\ NoOtherMembership(p)
              /\ pc[p] = "s_add" => FreeCapacity(p)
              /\ loc[p].prev.outcome \in Toggles)
                => /\ loc'[p].outcome \in Toggles \ {loc[p].prev.outcome}
                   /\ party'[loc[p].sid] = loc[p].prev.before]_vars

C19_Witness ==
    /\ pc["sel1"] = "idle" /\ loc["sel1"] # Idle
    /\ loc["sel1"].user = MaxUsers
    /\ loc["sel1"].prev.outcome = "ADDED_TO_PARTY"
    /\ loc["sel1"].outcome = "REMOVED_FROM_PARTY"
    /\ party[loc["sel1"].sid] = loc["sel1"].prev.before
    /\ Cardinality(party[loc["sel1"].sid]) = PartyCapacity - 1

\* The sender of request p is the GAME_MASTER of another session that is not
\* over and falls on the calendar day of the session asked for.
HostsElsewhere(p) ==
    \E a \in Sessions \ {loc[p].sid} :
        /\ status[a] \in ActiveStatuses
        /\ Member(loc[p].user, "GAME_MASTER") \in party[a]
        /\ SameDay(date[a], date[loc[p].sid])

\* C20: a user who is the GAME_MASTER of a session that is not over, and who
\* asks to join a SCHEDULED session of the same day that starts in the future
\* and whose roster they are not in, is answered HOSTING_SAME_DAY, and the
\* roster asked for is unchanged.
C20_HostingSameDay ==
    [][\A p \in SelProcs :
          pc[p] \in PastChecks /\ pc'[p] = "idle" /\ RowsOf(p) = {} /\ HostsElsewhere(p)
              => /\ SelReturns(p, "HOSTING_SAME_DAY")
                 /\ party'[loc[p].sid] = party[loc[p].sid]]_vars

\* The sender of request p has a row in the roster of another session whose
\* status is SCHEDULED, FULL or ACTIVE.
MemberElsewhere(p) ==
    \E a \in Sessions \ {loc[p].sid} :
        /\ status[a] \in {"SCHEDULED", "FULL", "ACTIVE"}
        /\ loc[p].user \in UserIds(party[a])

\* C21: a sender who is not in the roster of the session asked for and who is
\* a member of another session that is SCHEDULED, FULL or ACTIVE is answered
\* ALREADY_IN_SESSION; the conditional insert is not attempted and nothing is
\* written.
C21_AlreadyInSession ==
    [][\A p \in SelProcs :
          /\ SelReads(p) /\ Selectable(p) /\ RowsOf(p) = {}
                => pc'[p] = "s_active" /\ UNCHANGED store
          /\ pc[p] = "s_active" /\ pc'[p] # "s_active" /\ MemberElsewhere(p)
                => SelReturns(p, "ALREADY_IN_SESSION") /\ UNCHANGED store]_vars

C21_Witness ==
    /\ pc["sel1"] = "idle" /\ loc["sel1"] # Idle
    /\ loc["sel1"].outcome = "ALREADY_IN_SESSION"
    /\ loc["sel1"].user \notin UserIds(party[loc["sel1"].sid])
    /\ \E a \in Sessions \ {loc["sel1"].sid} :
          status[a] \in {"FULL", "ACTIVE"} /\ loc["sel1"].user \in UserIds(party[a])

\* The step of request p in which the conditional insert runs, and whether
\* it put the sender's row into the roster.
SelAdmits(p) == pc[p] = "s_add" /\ pc'[p] # "s_add"

Inserted(p) ==
    /\ Member(loc[p].user, loc[p].role) \notin party[loc[p].sid]
    /\ party'[loc[p].sid] = party[loc[p].sid] \cup {Member(loc[p].user, loc[p].role)}

\* C22: a sender who is not in the roster and has passed the checks of other
\* memberships and of hosting is answered ADDED_TO_PARTY exactly when the
\* conditional insert put the row in, PARTY_FULL exactly when it did not; with
\* PARTY_FULL the roster is as it was.
C22_AdmitOutcome ==
    [][\A p \in SelProcs :
          /\ pc[p] = "s_hosting" /\ pc'[p] # "s_hosting" /\ ~HostsElsewhere(p)
                /\ Member(loc[p].user, "GAME_MASTER") \notin party[loc[p].sid]
                => pc'[p] = "s_add" /\ UNCHANGED store
          /\ SelAdmits(p)
                => /\ pc'[p] = "idle"
                   /\ loc'[p].outcome \in {"ADDED_TO_PARTY", "PARTY_FULL"}
                   /\ loc'[p].outcome = "ADDED_TO_PARTY" <=> Inserted(p)
                   /\ loc'[p].outcome = "PARTY_FULL" <=> party' = party
                   /\ UNCHANGED <<status, date, eventId>>]_vars

C22_Witness ==
    /\ pc["sel1"] = "idle" /\ loc["sel1"] # Idle
    /\ loc["sel1"].outcome = "PARTY_FULL"
    /\ loc["sel1"].user \notin UserIds(party[loc["sel1"].sid])
    /\ Cardinality(party[loc["sel1"].sid]) = PartyCapacity

\* C23: in every reachable state a user has at most one row in the roster of
\* a session: also when a user who is not in the roster sends two requests
\* that both read the roster before either inserts, and when the session was
\* created by continuation from a previous party.
C23_RosterUniqueness ==
    \A s \in Sessions : \A m1, m2 \in party[s] : m1.userId = m2.userId => m1 = m2

(***************************************************************************)
(* Rejected calls.                                                         *)
(***************************************************************************)
OnlineProcs == {"cancel", "end", "fill", "completion"}

\* The call process p awaits at step l is rejected.
RejectedAt(p, l) == pc[p] = l /\ pc'[p] # l /\ used'.failed # used.failed

\* After the step, process p holds an error thrown to the caller of the
\* operation it ran.
Raises(p) == "threw" \in DOMAIN loc'[p]

\* C24: when the write of a CANCELED, ACTIVE or COMPLETED status is rejected
\* (in cancelSession, in endSession, in the fill-deadline callback), the
\* error is thrown to the caller of the operation, not swallowed.
C24_StatusWriteFailuresPropagate ==
    [][\A p \in OnlineProcs :
          \A l \in {"cs_update", "es_update", "f_active"} :
              RejectedAt(p, l) => Raises(p) /\ status' = status]_vars

\* The steps of cancelSession and endSession whose call is optional, and the
\* step each of them is followed by.
AfterOptional ==
    [cs_event |-> "cs_update", cs_regen |-> "cs_notify", cs_notify |-> "idle",
     es_event |-> "es_update", es_regen |-> "idle"]

\* C25: when deleting the external event, regenerating the message or
\* notifying the party is rejected in cancelSession or endSession, nothing is
\* thrown and no status is changed by the rejection: an event deletion that
\* failed is followed by the status write, which stores CANCELED
\* (COMPLETED), and a failure after the write leaves the status written.
C25_OptionalFailuresDoNotBlock ==
    [][\A p \in {"cancel", "end"} :
          /\ \A l \in DOMAIN AfterOptional :
                RejectedAt(p, l)
                    => pc'[p] = AfterOptional[l] /\ ~Raises(p) /\ status' = status
          /\ pc[p] = "cs_update" /\ pc'[p] = "cs_regen"
                => status' = [status EXCEPT ![loc[p].sid] = "CANCELED"]
          /\ pc[p] = "es_update" /\ pc'[p] = "es_regen"
                => status' = [status EXCEPT ![loc[p].sid] = "COMPLETED"]]_vars

C25_Witness ==
    /\ pc["cancel"] = "cs_notify"
    /\ used.failed = {loc["cancel"].sid}
    /\ status[loc["cancel"].sid] = "CANCELED"
    /\ message[loc["cancel"].sid].status # "CANCELED"

Outcomes ==
    {"LOCKED", "EXPIRED", "INVALID", "REMOVED_FROM_PARTY", "ROLE_CHANGED",
     "ALREADY_IN_SESSION", "HOSTING_SAME_DAY", "ADDED_TO_PARTY", "PARTY_FULL"}

\* C26: processRoleSelection always returns one of the outcome values and
\* never throws, also when the read of the session or a read or write of the
\* store is rejected.
C26_RoleSelectionNeverFaults ==
    [][\A p \in SelProcs :
          pc[p] # "idle" /\ pc'[p] = "idle" => loc'[p].outcome \in Outcomes]_vars

\* C27: shutdown() stops every installed timer of every session and empties
\* the registry: when it returns the registry holds no entry and no timer
\* that was pending can start a callback any more, also when stopping the
\* timers of one session threw.
C27_ShutdownStopsEveryTimer ==
    [][used'.restarts # used.restarts
          => scheduledTasks' = EmptyMap /\ liveJobs' = {}]_vars

\* The step in which the reminder callback ends, whether its calls succeeded
\* or one of them was rejected.
ReminderEnds ==
    /\ pc["reminder"] \in {"r_get", "r_notify"}
    /\ pc'["reminder"] = "idle"
    /\ used'.restarts = used.restarts

\* C28: when the reminder callback ends, after a reminder that was sent or one
\* that failed, the stored status and roster are as they were, the reminder
\* slot of the session is empty, its fill-deadline and completion timers are
\* untouched, and the registry entry is deleted exactly when neither of these
\* two slots is populated; no other entry changes.
C28_ReminderTouchesOnlyReminder ==
    [][ReminderEnds =>
          LET s == loc["reminder"].sid
          IN /\ UNCHANGED store
             /\ IF s \in DOMAIN scheduledTasks
                THEN LET task == scheduledTasks[s]
                     IN /\ liveJobs' = liveJobs \ {task.reminderJob}
                        /\ (task.cancellationJob = NoJob /\ task.completionJob = NoJob)
                              <=> s \notin DOMAIN scheduledTasks'
                        /\ s \in DOMAIN scheduledTasks'
                              => scheduledTasks'[s] = [task EXCEPT !.reminderJob = NoJob]
                        /\ \A x \in DOMAIN scheduledTasks \ {s} :
                              x \in DOMAIN scheduledTasks' /\ scheduledTasks'[x] = scheduledTasks[x]
                ELSE UNCHANGED <<scheduledTasks, liveJobs>>]_vars

C28_Witness ==
    /\ pc["reminder"] = "idle"
    /\ used.failed = {1} /\ used.restarts = 0 /\ used.manual = 0
    /\ status[1] = "SCHEDULED"
    /\ 1 \in DOMAIN scheduledTasks
    /\ scheduledTasks[1].reminderJob = NoJob
    /\ scheduledTasks[1].cancellationJob \in liveJobs
    /\ scheduledTasks[1].completionJob \in liveJobs

(***************************************************************************)
(* Reconciliation of the sessions whose start has passed.                  *)
(***************************************************************************)
\* The reconciliation has reloaded a SCHEDULED or FULL session whose start
\* has passed and finds fewer than PartyCapacity rows.
ReloadsUnfilled ==
    /\ Step("init", "i_get")
    /\ partySize(loc["init"].sid) < PartyCapacity

\* The reconciliation cancels with the reason given: it goes from the reload
\* to cancelSession with it, writes CANCELED and renders the message with it.
RecoveryCancelsWith(reason) ==
    /\ ReloadsUnfilled
          => /\ pc'["init"] = "cs_get"
             /\ loc'["init"].reason = reason
             /\ UNCHANGED store
    /\ Step("init", "cs_update")
          => status' = [status EXCEPT ![loc["init"].sid] = "CANCELED"]
    /\ Step("init", "cs_regen")
          => message'[loc["init"].sid] = [status |-> status[loc["init"].sid],
                                         description |-> reason]

CompletionOnly(s) ==
    [reminderJob |-> NoJob, cancellationJob |-> NoJob,
     completionJob |-> Job(s, "completion", getHoursAfter(date[s], CompletionHours))]

CompletionPassed(s) == ~isFutureDate(getHoursAfter(date[s], CompletionHours), now)

\* C30: a SCHEDULED or FULL session whose start has passed and whose reloaded
\* roster has 6 rows is set to ACTIVE by the reconciliation.  If start + 5 h
\* is still in the future, the completion timer and no other timer is
\* installed for it; otherwise endSession is called at once and the session
\* ends COMPLETED.
C30_RecoveryActivatesFull ==
    /\ [][/\ Step("init", "i_get") /\ partySize(loc["init"].sid) >= PartyCapacity
                => pc'["init"] = "i_active" /\ UNCHANGED store
          /\ Step("init", "i_active")
                => LET s == loc["init"].sid
                   IN /\ status' = [status EXCEPT ![s] = "ACTIVE"]
                      /\ IF CompletionPassed(s)
                         THEN /\ pc'["init"] = "es_get"
                              /\ UNCHANGED <<scheduledTasks, liveJobs>>
                         ELSE /\ s \in DOMAIN scheduledTasks'
                              /\ scheduledTasks'[s] = CompletionOnly(s)
                              /\ {j \in liveJobs' : j.sid = s} = {CompletionOnly(s).completionJob}]_vars
    /\ \A s \in Sessions :
          (pc["init"] = "i_active" /\ loc["init"].sid = s /\ CompletionPassed(s))
              ~> (status[s] = "COMPLETED")

C30_Witness ==
    /\ pc["init"] = "idle"
    /\ \E s \in Sessions :
          /\ status[s] = "ACTIVE"
          /\ message[s].status \in {"SCHEDULED", "FULL"}
          /\ ~isFutureDate(date[s], now)
          /\ s \in DOMAIN scheduledTasks
          /\ scheduledTasks[s] = CompletionOnly(s)
          /\ CompletionOnly(s).completionJob \in liveJobs

\* The pending session x was read ACTIVE by the reconciliation, its start has
\* passed and its completion instant has not.
ActiveInWindow(x) ==
    /\ x.status = "ACTIVE"
    /\ ~isFutureDate(x.date, now)
    /\ isFutureDate(getHoursAfter(x.date, CompletionHours), now)

\* C31: when the reconciliation returns, a session it read as ACTIVE with
\* start <= now < start + 5 h is still ACTIVE, and the registry entry of the
\* session holds its completion timer and no other timer.
C31_RecoveryKeepsActiveInWindow ==
    [][InitReturns =>
          \A i \in 1..Len(PendingOfInit) :
              LET s == PendingOfInit[i].id
              IN ActiveInWindow(PendingOfInit[i])
                    => /\ status'[s] = "ACTIVE"
                       /\ s \in DOMAIN scheduledTasks'
                       /\ scheduledTasks'[s] = CompletionOnly(s)
                       /\ {j \in liveJobs' : j.sid = s}
                             = {CompletionOnly(s).completionJob}]_vars

\* C31 witness: the reconciliation has returned; a session that was stored
\* ACTIVE (its message shows ACTIVE) is in its window, still ACTIVE, with the
\* completion timer alone.
C31_Witness ==
    /\ pc["init"] = "idle"
    /\ \E s \in Sessions :
          /\ status[s] = "ACTIVE"
          /\ message[s].status = "ACTIVE"
          /\ ActiveInWindow([id |-> s, date |-> date[s], status |-> status[s]])
          /\ s \in DOMAIN scheduledTasks
          /\ scheduledTasks[s] = CompletionOnly(s)
          /\ {j \in liveJobs : j.sid = s} = {CompletionOnly(s).completionJob}

(***************************************************************************)
(* Status writes and the session message.                                  *)
(***************************************************************************)
\* The positions from which the operation under way goes on to regenerate
\* the session message of the session it works on.
BeforeRegen ==
    {"cs_regen", "f_regen", "es_get", "es_event", "es_update", "es_regen"}

\* C32: every write of ACTIVE, CANCELED or COMPLETED, by the fill-deadline
\* callback, by a manual cancel or end, or by the reconciliation, is followed
\* by an attempt to regenerate the message of that session: the operation that
\* wrote goes on to its regeneration step.
C32_StatusWriteRegenerates ==
    [][\A s \in Sessions :
          (/\ status'[s] # status[s]
           /\ status'[s] \in {"ACTIVE", "CANCELED", "COMPLETED"}
           /\ used'.restarts = used.restarts)
              => \E p \in Procs : /\ pc'[p] \in BeforeRegen
                                  /\ loc'[p].sid = s]_vars

\* C33: when initializeExistingSessions returns, every session whose stored
\* status is SCHEDULED or FULL has its fill-deadline timer pending in the
\* registry, whatever the instant of the start of the process.
C33_PendingSessionsKeepFillTimer ==
    [][InitReturns =>
          \A s \in Sessions :
              status'[s] \in {"SCHEDULED", "FULL"}
                  => Installed(scheduledTasks', liveJobs', s, "cancellationJob")]_vars

(***************************************************************************)
(* Callbacks in flight and the task set that replaced theirs.              *)
(***************************************************************************)
\* Callback p of session s is in flight and the registry entry of s is not
\* the set the callback belongs to: the entry holds a pending timer of the
\* callback's own slot, and the one-shot timer that started p has fired.
RunsOnReplacedSet(p) ==
    /\ pc[p] # "idle"
    /\ loc[p].sid \in DOMAIN scheduledTasks
    /\ scheduledTasks[loc[p].sid][SlotField(p)] \in liveJobs

\* C34: when a reminder, fill-deadline or completion callback ends after
\* scheduleSessionTasks has installed a new task set for its session, the
\* registry entry of the new set and its pending timers are as they were.
C34_OldCallbackSparesNewSet ==
    [][\A p \in CallbackProcs :
          (/\ RunsOnReplacedSet(p)
           /\ pc'[p] = "idle"
           /\ used'.restarts = used.restarts)
              => LET s == loc[p].sid
                 IN /\ s \in DOMAIN scheduledTasks'
                    /\ scheduledTasks'[s] = scheduledTasks[s]
                    /\ JobsOf(scheduledTasks[s]) \cap liveJobs \subseteq liveJobs']_vars

(***************************************************************************)
(* modifySession.                                                          *)
(***************************************************************************)
\* C35: the write of modifySession leaves the stored status of every session
\* as it was just before the write, whatever cancelSession, endSession or a
\* timer callback did since modifySession read the session.
C35_ModifyKeepsStatus ==
    [][Step("modify", "m_update") => status' = status]_vars

\* Some operation on session s is in progress.
InProgress(s) == \E p \in Procs : pc[p] # "idle" /\ loc[p].sid = s

\* C36: while no operation on it is in progress, a session whose stored status
\* is COMPLETED or CANCELED has no entry in the timer registry and no pending
\* timer.
C36_NoTimersForTerminal ==
    \A s \in Sessions :
        (status[s] \in Terminal /\ ~InProgress(s))
            => NoTimerFor(scheduledTasks, liveJobs, s)

(***************************************************************************)
(* A manual cancel or end whose status write is rejected.                  *)
(***************************************************************************)
\* C37: when the status write of a manual cancelSession or endSession is
\* rejected and the operation raises, the stored status is unchanged and the
\* timers of the session that were pending when the operation was called are
\* still pending, in the registry entry of the session.
C37_FailedWriteKeepsTimers ==
    [][\A p \in {"cancel", "end"} :
          (RejectedAt(p, "cs_update") \/ RejectedAt(p, "es_update"))
              => /\ Raises(p)
                 /\ status' = status
                 /\ \A j \in loc[p].entry.jobs :
                       j.at > now
                          => /\ j \in liveJobs'
                             /\ loc[p].sid \in DOMAIN scheduledTasks'
                             /\ j \in JobsOf(scheduledTasks'[loc[p].sid])]_vars

(***************************************************************************)
(* Sessions created by continuation.                                       *)
(***************************************************************************)
\* C38: whenever the stored status of a session is set to FULL, the stored
\* roster of the session has exactly PartyCapacity rows at that moment.
C38_FullMeansFull ==
    [][\A s \in Sessions :
          (status'[s] = "FULL" /\ status[s] # "FULL")
              => Cardinality(party'[s]) = PartyCapacity]_vars

(***************************************************************************)
(* Role selection against a session that is over.                          *)
(***************************************************************************)
\* C39: no step of a role-selection request changes the roster of a session
\* whose stored status is COMPLETED or CANCELED, also when the request read
\* the session while it was SCHEDULED.
C39_FinishedRosterFrozen ==
    [][\A p \in SelProcs : \A s \in Sessions :
          (SelStep(p) /\ status[s] \in Terminal) => party'[s] = party[s]]_vars

(***************************************************************************)
(* Hosting.                                                                *)
(***************************************************************************)
\* User u is the GAME_MASTER of session s, which is SCHEDULED, FULL or ACTIVE.
Hosts(u, s) ==
    /\ status[s] \in ActiveStatuses
    /\ Member(u, "GAME_MASTER") \in party[s]

\* C40: in every reachable state no user is the GAME_MASTER of two sessions
\* with status SCHEDULED, FULL or ACTIVE that start on the same calendar day,
\* whatever createSession, continueSession and modifySession calls were made.
C40_OneHostedSessionPerDay ==
    \A u \in Users : \A s1, s2 \in Sessions :
        (s1 # s2 /\ Hosts(u, s1) /\ Hosts(u, s2)) => ~SameDay(date[s1], date[s2])


============================================================================
